---- MODULE Spec2Model ----
(***************************************************************************)
(* View-change block processing of a shard node                            *)
(* (src/src/libNode/ViewChangeBlockProcessing.cpp).                        *)
(*                                                                         *)
(* Worker threads run Node::ProcessVCBlock on inbound frames; the DS       *)
(* committee, the block-link chain, the block store and the epoch          *)
(* counters are shared.  Every statement of ProcessVCBlock and             *)
(* ProcessVCBlockCore that reads or writes shared state is one action.     *)
(* Hashes and signatures are symbolic: a hash is an injective tag of what  *)
(* it hashes, a co-signature names the message and the keys it was made    *)
(* with.                                                                   *)
(***************************************************************************)
EXTENDS Integers, Sequences, FiniteSets, TLC

\* ------------------------------------------------------------------ bounds

\* ProcessVCBlock invocations in one behaviour.
MaxCalls == 2
\* The node's epoch counter stops advancing here.
MaxEpoch == 2
\* Worker threads that run ProcessVCBlock side by side.
Workers == 2

\* --------------------------------------------------------- program constants

VCBLOCK_VERSION == 1
CONSENSUS_OBJECT_TIMEOUT == 1
VIEWCHANGE_TIME == 1
VIEWCHANGE_PRECHECK_TIME == 1
VIEWCHANGE_EXTRA_TIME == 1

\* ------------------------------------------------------------------- data

Threads == 1..Workers
NoThread == 0

\* Peer(): the default-constructed peer, 0.0.0.0:0.
ZeroPeer == "0.0.0.0:0"
PeerOf == [A |-> "10.0.0.1:30303", B |-> "10.0.0.2:30303",
           C |-> "10.0.0.3:30303", D |-> "10.0.0.4:30303",
           E |-> "10.0.0.5:30303", F |-> "10.0.0.6:30303",
           G |-> "10.0.0.7:30303", H |-> "10.0.0.8:30303",
           X |-> "10.0.0.9:30303"]
PubKeyUniverse == DOMAIN PeerOf

\* m_mediator.m_selfKey.second of the node under analysis.
SelfKey == "A"

\* A PairOfNode as other nodes see it, and as its owner stores it.
Member(pk) == <<pk, PeerOf[pk]>>
SelfEntry(pk) == <<pk, ZeroPeer>>

\* The node's committee view at start-up: itself with the zero peer.
InitCommittee == <<SelfEntry("A"), Member("B"), Member("C")>>

\* -------------------------------------------------------- sequence helpers

\* std::find: index of the first element equal to x, 0 for end().
Find(s, x) ==
    IF \E i \in DOMAIN s : s[i] = x
    THEN CHOOSE i \in DOMAIN s : s[i] = x /\ \A j \in 1..(i - 1) : s[j] # x
    ELSE 0

\* std::find_if on the pubkey: first element whose first component is pk.
FindKey(s, pk) ==
    IF \E i \in DOMAIN s : s[i][1] = pk
    THEN CHOOSE i \in DOMAIN s : s[i][1] = pk /\ \A j \in 1..(i - 1) : s[j][1] # pk
    ELSE 0

\* deque::erase(it).
Erase(s, i) == SubSeq(s, 1, i - 1) \o SubSeq(s, i + 1, Len(s))

Range(s) == {s[i] : i \in DOMAIN s}

\* --------------------------------------------------- committee reshuffling

\* EjectOne that appends without erasing what it found.
EjectOneKeepsEntry(dsComm, faultyLeader, selfKey) == Append(dsComm, faultyLeader)

\* EjectOne that puts the faulty leader at the front (emplace_front).
EjectOneToFront(dsComm, faultyLeader, selfKey) ==
    LET it == Find(dsComm, faultyLeader)
        erased == IF it # 0 THEN Erase(dsComm, it) ELSE dsComm
    IN  <<faultyLeader>> \o erased

\* EjectOne that appends only what it found and erased.
EjectOneFoundOnly(dsComm, faultyLeader, selfKey) ==
    LET it == Find(dsComm, faultyLeader)
    IN  IF it # 0 THEN Append(Erase(dsComm, it), faultyLeader) ELSE dsComm

\* One iteration of the loop of UpdateDSCommiteeCompositionAfterVC.
EjectOne(dsComm, faultyLeader, selfKey) ==
    LET target == IF faultyLeader[1] = selfKey /\ faultyLeader[2] = ZeroPeer
                  THEN <<faultyLeader[1], ZeroPeer>>
                  ELSE faultyLeader
        it == Find(dsComm, target)
        erased == IF it # 0 THEN Erase(dsComm, it) ELSE dsComm
    IN  Append(erased, faultyLeader)

\* EjectAll that walks the faulty leaders from the last to the first.
RECURSIVE EjectAllBackwards(_, _, _)
EjectAllBackwards(dsComm, faulty, selfKey) ==
    IF faulty = <<>> THEN dsComm
    ELSE EjectAllBackwards(EjectOne(dsComm, faulty[Len(faulty)], selfKey),
                           SubSeq(faulty, 1, Len(faulty) - 1), selfKey)

\* The loop over GetFaultyLeaders().
RECURSIVE EjectAll(_, _, _)
EjectAll(dsComm, faulty, selfKey) ==
    IF faulty = <<>> THEN dsComm
    ELSE EjectAll(EjectOne(dsComm, Head(faulty), selfKey), Tail(faulty), selfKey)

\* UpdateDSCommiteeCompositionAfterVC without the GUARD_MODE return.
UpdateInGuardModeToo(faulty, dsComm, selfKey, guard) ==
    EjectAll(dsComm, faulty, selfKey)

UpdateDSCommiteeCompositionAfterVC(faulty, dsComm, selfKey, guard) ==
    IF guard THEN dsComm ELSE EjectAll(dsComm, faulty, selfKey)

\* One iteration of the loop of UpdateRetrieveDSCommiteeCompositionAfterVC.
EjectOneByKey(dsComm, faultyLeader) ==
    LET it == FindKey(dsComm, faultyLeader[1])
        erased == IF it # 0 THEN Erase(dsComm, it) ELSE dsComm
    IN  Append(erased, faultyLeader)

RECURSIVE EjectAllByKey(_, _)
EjectAllByKey(dsComm, faulty) ==
    IF faulty = <<>> THEN dsComm
    ELSE EjectAllByKey(EjectOneByKey(dsComm, Head(faulty)), Tail(faulty))

UpdateRetrieveDSCommiteeCompositionAfterVC(faulty, dsComm, guard) ==
    IF guard THEN dsComm ELSE EjectAllByKey(dsComm, faulty)

\* ------------------------------------------------------ hashes, signatures

\* VCBlockHeader::GetMyHash: the hash of the serialized header.
GetMyHash(header) == <<"sha256", header>>

\* Messenger::GetDSCommitteeHash: the hash of the serialized committee.
GetDSCommitteeHash(committee) == <<"sha256", committee>>

\* ConsensusCommon::NumForConsensus(n) = ceil(2n/3) + 1.
NumForConsensus(n) == ((2 * n + 2) \div 3) + 1

\* MultiSig::AggregatePubKeys: the sum of the keys (each counted as often as
\* it is listed); nullptr for an empty list.
NullKey == [k \in PubKeyUniverse |-> 0]
AggregatePubKeys(keys) ==
    [k \in PubKeyUniverse |-> Cardinality({i \in DOMAIN keys : keys[i] = k})]

\* A collective signature is made over a message with an aggregated key.
Sign(message, aggKey) == [over |-> message, by |-> aggKey]
MultiSigVerify(message, sig, aggKey) == sig.over = message /\ sig.by = aggKey

\* header.Serialize || CS1.Serialize || BitVector::SetBitVector(B1)
CoSigMessage(vcblock) ==
    <<<<"hdr", vcblock.header>>, <<"sig", vcblock.cs1>>, <<"bits", Len(vcblock.b1), vcblock.b1>>>>

\* The keys of the members whose bit is set, in committee order (the walk
\* over the committee with B2.at(index)).
RECURSIVE KeysAt(_, _)
KeysAt(committee, bits) ==
    IF committee = <<>> THEN <<>>
    ELSE (IF bits # <<>> /\ Head(bits) THEN <<Head(committee)[1]>> ELSE <<>>)
         \o KeysAt(Tail(committee), IF bits = <<>> THEN <<>> ELSE Tail(bits))

\* VerifyVCBlockCoSignature without the comparison of the committee size with
\* the size of B2.
VerifyWithoutSizeCheck(vcblock, committee, serOk) ==
    LET B2 == vcblock.b2
        keys == KeysAt(committee, B2)
        count == Len(keys)
    IN  IF count # NumForConsensus(Len(B2)) THEN FALSE
        ELSE LET aggregatedKey == AggregatePubKeys(keys) IN
             IF aggregatedKey = NullKey THEN FALSE
             ELSE IF ~serOk THEN FALSE
             ELSE MultiSigVerify(CoSigMessage(vcblock), vcblock.cs2, aggregatedKey)

\* VerifyVCBlockCoSignature that is content with the threshold or more
\* signers (count < NumForConsensus rejects).
VerifyAtLeastThreshold(vcblock, committee, serOk) ==
    LET B2 == vcblock.b2 IN
    IF Len(committee) # Len(B2) THEN FALSE
    ELSE LET keys == KeysAt(committee, B2)
             count == Len(keys)
         IN  IF count < NumForConsensus(Len(B2)) THEN FALSE
             ELSE LET aggregatedKey == AggregatePubKeys(keys) IN
                  IF aggregatedKey = NullKey THEN FALSE
                  ELSE IF ~serOk THEN FALSE
                  ELSE MultiSigVerify(CoSigMessage(vcblock), vcblock.cs2, aggregatedKey)

\* Node::VerifyVCBlockCoSignature; serOk is the outcome of the header's
\* Serialize call.
VerifyVCBlockCoSignature(vcblock, committee, serOk) ==
    LET B2 == vcblock.b2 IN
    IF Len(committee) # Len(B2) THEN FALSE
    ELSE LET keys == KeysAt(committee, B2)
             count == Len(keys)
         IN  IF count # NumForConsensus(Len(B2)) THEN FALSE
             ELSE LET aggregatedKey == AggregatePubKeys(keys) IN
                  IF aggregatedKey = NullKey THEN FALSE
                  ELSE IF ~serOk THEN FALSE
                  ELSE MultiSigVerify(CoSigMessage(vcblock), vcblock.cs2, aggregatedKey)

\* The return statement at which Node::VerifyVCBlockCoSignature leaves: the
\* size check, the count check, the key aggregation, the header's Serialize,
\* MultiSigVerify, or the return true at the end.
CoSigExit(vcblock, committee, serOk) ==
    LET B2 == vcblock.b2 IN
    IF Len(committee) # Len(B2) THEN "size"
    ELSE LET keys == KeysAt(committee, B2)
             count == Len(keys)
         IN  IF count # NumForConsensus(Len(B2)) THEN "count"
             ELSE LET aggregatedKey == AggregatePubKeys(keys) IN
                  IF aggregatedKey = NullKey THEN "aggregate"
                  ELSE IF ~serOk THEN "serialize"
                  ELSE IF ~MultiSigVerify(CoSigMessage(vcblock), vcblock.cs2, aggregatedKey)
                       THEN "verify"
                       ELSE "true"

\* ------------------------------------------------------------- timestamps

\* The tolerance without VIEWCHANGE_EXTRA_TIME.
ToleranceWithoutExtraTime ==
    CONSENSUS_OBJECT_TIMEOUT + VIEWCHANGE_TIME + VIEWCHANGE_PRECHECK_TIME

Tolerance ==
    CONSENSUS_OBJECT_TIMEOUT + VIEWCHANGE_TIME + VIEWCHANGE_PRECHECK_TIME
    + VIEWCHANGE_EXTRA_TIME

\* get_time_as_int() when the node starts.
StartTime == Tolerance + 1

\* VerifyTimestamp(timestamp, tolerance) against the clock reading now.
VerifyTimestamp(timestamp, tolerance, now) ==
    timestamp >= now - tolerance /\ timestamp <= now + tolerance

\* --------------------------------------------------------- epochs, states

\* DirectoryService::IsDSBlockVCState: the view change happened while the DS
\* committee was agreeing on a DS block.
DSBlockVCStates == {"DSBLOCK_CONSENSUS_PREP", "DSBLOCK_CONSENSUS"}
IsDSBlockVCState(state) == state \in DSBlockVCStates

\* Mediator::CheckWhetherBlockIsLatest: the block is ahead of the last DS
\* block and of the last Tx block the node holds.
CheckWhetherBlockIsLatest(dsEpoch, txEpoch, latestDS, curEpoch) ==
    dsEpoch > latestDS /\ txEpoch > curEpoch - 1

\* ------------------------------------------------------------- block links

\* BlockLinkChain::GetLatestIndex.
GetLatestIndex(chain) == IF chain = <<>> THEN 0 ELSE chain[Len(chain)].index

\* BlockLinkChain::AddBlockLink: a link whose index is not the next one is
\* refused.
AddBlockLink(chain, index, dsEpoch, blockType, hash) ==
    IF chain # <<>> /\ index # GetLatestIndex(chain) + 1 THEN chain
    ELSE Append(chain, [dsEpoch |-> dsEpoch, index |-> index,
                        blockType |-> blockType, hash |-> hash])

\* The chain of a node that holds the genesis DS block only.
InitChain ==
    <<[dsEpoch |-> 0, index |-> 0, blockType |-> "DS",
       hash |-> <<"sha256", [faulty |-> <<>>, version |-> 0, vcDSEpoch |-> 0,
                             vcEpoch |-> 0, vcState |-> "GENESIS",
                             committeeHash |-> <<"sha256", <<>>>>]>>]>>

\* ----------------------------------------------------------------- frames

\* VCBlock::Serialize, and Messenger::SetNodeVCBlock / GetNodeVCBlock on the
\* body of a frame.
Serialize(vcblock) == <<"vcblock", vcblock>>
Frame(body, trailing) ==
    [body |-> body, trailing |-> trailing, type |-> "NODE", instr |-> "VCBLOCK"]
SetNodeVCBlock(vcblock) == Frame(Serialize(vcblock), 0)
Decodes(frame) == frame.body[1] = "vcblock"
GetNodeVCBlock(frame) == frame.body[2]

\* ------------------------------------------------------------------ inputs

AllSet(n) == [i \in 1..n |-> TRUE]

MkHeader(version, dsEpoch, epoch, state, faulty, committeeHash) ==
    [faulty |-> faulty, version |-> version, vcDSEpoch |-> dsEpoch, vcEpoch |-> epoch,
     vcState |-> state, committeeHash |-> committeeHash]

\* A block over header whose second-round signature was made by the members
\* of signedBy selected by b2 over the header, cs1 and b1 it carries.
MkBlock(header, b1, b2, signedBy, timestamp) ==
    LET unsignedBlock == [header |-> header, cs1 |-> "cs1", b1 |-> b1]
        bits == IF Len(b2) = Len(signedBy) THEN b2 ELSE AllSet(Len(signedBy))
    IN  [header |-> header, cs1 |-> "cs1", b1 |-> b1, b2 |-> b2,
         cs2 |-> Sign(CoSigMessage(unsignedBlock),
                      AggregatePubKeys(KeysAt(signedBy, bits))),
         timestamp |-> timestamp, blockHash |-> GetMyHash(header)]

\* The block an honest committee with view comm produces in Tx epoch epoch
\* to eject faulty.
GoodBlock(epoch, faulty, comm) ==
    MkBlock(MkHeader(VCBLOCK_VERSION, 1, epoch, "FINALBLOCK_CONSENSUS", faulty,
                     GetDSCommitteeHash(comm)),
            AllSet(Len(comm)), AllSet(Len(comm)), comm, StartTime)

\* The committee after B was ejected.
CommitteeAfterB ==
    UpdateDSCommiteeCompositionAfterVC(<<Member("B")>>, InitCommittee, SelfKey, FALSE)

Base == GoodBlock(1, <<Member("B")>>, InitCommittee)

GoodBlocks ==
    { Base,
      GoodBlock(1, <<>>, InitCommittee),
      GoodBlock(1, <<Member("C")>>, CommitteeAfterB),
      GoodBlock(1, <<Member("A")>>, InitCommittee),
      GoodBlock(2, <<Member("B")>>, InitCommittee) }

\* Base with one field changed.
WrongVersion(b) == [b EXCEPT !.header.version = VCBLOCK_VERSION + 1,
                             !.blockHash = GetMyHash([b.header EXCEPT !.version = VCBLOCK_VERSION + 1])]
WrongState(b) == [b EXCEPT !.header.vcState = "DSBLOCK_CONSENSUS",
                           !.blockHash = GetMyHash([b.header EXCEPT !.vcState = "DSBLOCK_CONSENSUS"])]
StaleDS(b) == [b EXCEPT !.header.vcDSEpoch = 0,
                        !.blockHash = GetMyHash([b.header EXCEPT !.vcDSEpoch = 0])]
WrongHash(b) == [b EXCEPT !.blockHash = GetMyHash([b.header EXCEPT !.vcState = "CORRUPT"])]
Late(b) == [b EXCEPT !.timestamp = StartTime + Tolerance + 1]
WrongCommittee(b) ==
    [b EXCEPT !.header.committeeHash = GetDSCommitteeHash(<<Member("X")>>),
              !.blockHash = GetMyHash([b.header EXCEPT
                                         !.committeeHash = GetDSCommitteeHash(<<Member("X")>>)])]
ShortB2(b) == [b EXCEPT !.b2 = AllSet(Len(b.b2) - 1)]
FewSigners(b) == [b EXCEPT !.b2 = [b.b2 EXCEPT ![1] = FALSE]]
ForgedCS2(b) == [b EXCEPT !.cs2 = Sign(CoSigMessage(WrongState(b)), b.cs2.by)]
\* A block the quorum signed with a first-round bitmap of another length.
ShortB1(b) ==
    MkBlock(b.header, AllSet(Len(b.b1) - 1), b.b2, InitCommittee, b.timestamp)

BadBlocks ==
    { WrongState(WrongVersion(Base)), WrongState(Base), StaleDS(Base),
      Late(WrongHash(Base)), Late(Base), ForgedCS2(WrongCommittee(Base)),
      ForgedCS2(Base), ShortB2(Base), FewSigners(Base), ShortB1(Base) }

\* A block the quorum made and signed in a DS-block-coupled state: but for
\* the state it is Base.
SignedDSState ==
    MkBlock(MkHeader(VCBLOCK_VERSION, 1, 1, "DSBLOCK_CONSENSUS_PREP", <<Member("B")>>,
                     GetDSCommitteeHash(InitCommittee)),
            AllSet(Len(InitCommittee)), AllSet(Len(InitCommittee)), InitCommittee, StartTime)

Garbage == Frame(<<"noise", Base>>, 0)

\* The frames the network may hand to ProcessVCBlock.
Messages ==
    {SetNodeVCBlock(b) : b \in GoodBlocks \cup BadBlocks \cup {SignedDSState}}
    \cup {Frame(Serialize(Base), 1), Garbage}

\* ------------------------------------------------------------ configuration

NUM_FORWARDED_BLOCK_RECEIVERS_PER_SHARD == 2
NUM_DS_ELECTION == 3
NUM_OF_TREEBASED_CHILD_CLUSTERS == 2

\* unsigned int, at a width of UIntBits bits: the values are 0..UIntMax and
\* the arithmetic is modulo UIntMax + 1.
UIntBits == 4
UIntMax == 2 ^ UIntBits - 1

\* The cluster size Node::SendVCBlockToOtherShardNodes settles on, in unsigned
\* int arithmetic.
ClusterSize(numForwarded, numDSElection) ==
    IF numForwarded <= numDSElection THEN (numDSElection + 1) % (UIntMax + 1)
    ELSE numForwarded

\* What SendVCBlockToOtherShardNodes hands to SendBlockToOtherShardNodes.
SendVCBlockToOtherShardNodes(vcblock_message) ==
    [frame |-> vcblock_message,
     cluster_size |-> ClusterSize(NUM_FORWARDED_BLOCK_RECEIVERS_PER_SHARD, NUM_DS_ELECTION),
     num_of_child_clusters |-> NUM_OF_TREEBASED_CHILD_CLUSTERS]

\* ------------------------------------------------------------------- state

VARIABLES
    DSCommittee,          \* *m_mediator.m_DSCommittee
    mutexDSCommittee,     \* owner of m_mediator.m_mutexDSCommittee
    blocklinkchain,       \* m_mediator.m_blocklinkchain
    vcBlockStore,         \* BlockStorage: block hash -> serialized VC block
    currentEpochNum,      \* m_mediator.m_currentEpochNum
    latestDSBlockNum,     \* number of the last DS block the node holds
    now,                  \* the clock
    GUARD_MODE, LOOKUP_NODE_MODE, BROADCAST_TREEBASED_CLUSTER_MODE,
    sent,                 \* what was handed to SendBlockToOtherShardNodes
    pc,                   \* where each worker is in ProcessVCBlock
    message,              \* the frame each worker was called with
    call,                 \* per worker: the history of its current or last call
    prevCall,             \* the call that returned last
    calls,                \* ProcessVCBlock invocations so far
    probe                 \* a function applied on its own: inputs and result

config == <<GUARD_MODE, LOOKUP_NODE_MODE, BROADCAST_TREEBASED_CLUSTER_MODE>>
node == <<DSCommittee, mutexDSCommittee, blocklinkchain, vcBlockStore, currentEpochNum,
          latestDSBlockNum, now, sent, pc, message, call, prevCall, calls>>
environment == <<currentEpochNum, latestDSBlockNum, now>>
storage == <<blocklinkchain, vcBlockStore>>
vars == <<DSCommittee, mutexDSCommittee, blocklinkchain, vcBlockStore,
          currentEpochNum, latestDSBlockNum, now, GUARD_MODE, LOOKUP_NODE_MODE,
          BROADCAST_TREEBASED_CLUSTER_MODE, sent, pc, message, call, prevCall, calls,
          probe>>

\* The settings of GUARD_MODE, LOOKUP_NODE_MODE and
\* BROADCAST_TREEBASED_CLUSTER_MODE the node is run with.
Configurations ==
    { <<FALSE, FALSE, TRUE>>, <<TRUE, FALSE, TRUE>>,
      <<FALSE, TRUE, TRUE>>, <<FALSE, FALSE, FALSE>> }

NoCall == [result |-> "none"]
NoProbe == [kind |-> "none"]

\* The history a call starts with.
NewCall(others, last) ==
    [committee |-> <<>>, epoch |-> currentEpochNum,
     result |-> "running", gate |-> "none", passed |-> <<>>, effects |-> <<>>,
     concurrent |-> others, acquired |-> 0, hashed |-> <<>>, before |-> last,
     committeeIn |-> DSCommittee, storeIn |-> vcBlockStore, epochIn |-> currentEpochNum,
     store |-> vcBlockStore]

\* The node after construction.
InitNode ==
    /\ DSCommittee = InitCommittee
    /\ mutexDSCommittee = NoThread
    /\ blocklinkchain = InitChain
    /\ vcBlockStore = << >>
    /\ currentEpochNum = 1
    /\ latestDSBlockNum = 0
    /\ now = StartTime
    /\ \E c \in Configurations :
         /\ GUARD_MODE = c[1]
         /\ LOOKUP_NODE_MODE = c[2]
         /\ BROADCAST_TREEBASED_CLUSTER_MODE = c[3]
    /\ sent = <<>>
    /\ pc = [t \in Threads |-> "idle"]
    /\ message = [t \in Threads |-> Garbage]
    /\ call = [t \in Threads |-> NoCall]
    /\ prevCall = NoCall
    /\ calls = 0

Init == InitNode /\ probe = NoProbe

\* The block worker t decoded from its frame.
Blk(t) == GetNodeVCBlock(message[t])

Active == {t \in Threads : pc[t] # "idle"}

\* --------------------------------------------------------- ends of a step

\* A gate passed: on to the next statement.
Pass(t, gateName, next) ==
    /\ pc' = [pc EXCEPT ![t] = next]
    /\ call' = [call EXCEPT ![t].passed = Append(@, gateName)]
    /\ UNCHANGED prevCall

\* The record of a call that has returned.
Returned(t, c) ==
    [committee |-> c.committee, frame |-> message[t], epoch |-> c.epoch,
     result |-> c.result, gate |-> c.gate, epochIn |-> c.epochIn]

\* A return of ProcessVCBlock: c is the call's history at the return.  The
\* block store and the epoch are recorded as the return leaves them.
Return(t, c) ==
    LET done == [c EXCEPT !.store = vcBlockStore', !.epoch = currentEpochNum] IN
    /\ pc' = [pc EXCEPT ![t] = "idle"]
    /\ call' = [call EXCEPT ![t] = done]
    /\ prevCall' = Returned(t, done)

\* return false at gateName: the committee is recorded as the return leaves it.
Reject(t, gateName) ==
    Return(t, [call[t] EXCEPT !.result = "false", !.gate = gateName,
                              !.committee = DSCommittee'])

\* ------------------------------------------------------- Node::ProcessVCBlock

\* A frame arrives and the first free worker is started on it.
Receive(t, frame) ==
    /\ pc[t] = "idle"
    /\ \A u \in Threads : u < t => pc[u] # "idle"
    /\ calls < MaxCalls
    /\ calls' = calls + 1
    /\ pc' = [pc EXCEPT ![t] = "decode"]
    /\ message' = [message EXCEPT ![t] = frame]
    /\ call' = [u \in Threads |->
                  IF u = t THEN NewCall(Active, IF Active = {} THEN prevCall ELSE NoCall)
                  ELSE IF u \in Active
                       THEN [call[u] EXCEPT !.concurrent = @ \cup {t}, !.before = NoCall]
                       ELSE call[u]]
    /\ UNCHANGED <<DSCommittee, mutexDSCommittee, storage, environment, config, probe,
                   sent, prevCall>>

\* Messenger::GetNodeVCBlock
Decode(t) ==
    /\ pc[t] = "decode"
    /\ UNCHANGED <<DSCommittee, mutexDSCommittee, storage, environment, config, probe,
                   sent, message, calls>>
    /\ IF Decodes(message[t]) THEN Pass(t, "decode", "version")
       ELSE Reject(t, "decode")

CheckVersion(t) ==
    /\ pc[t] = "version"
    /\ UNCHANGED <<DSCommittee, mutexDSCommittee, storage, environment, config, probe,
                   sent, message, calls>>
    /\ IF Blk(t).header.version = VCBLOCK_VERSION THEN Pass(t, "version", "state")
       ELSE Reject(t, "version")

\* CheckState followed by the freshness check, the epoch check left out.
CheckStateThenLatest(t) ==
    /\ pc[t] = "state"
    /\ UNCHANGED <<DSCommittee, mutexDSCommittee, storage, environment, config, probe,
                   sent, message, calls>>
    /\ IF ~IsDSBlockVCState(Blk(t).header.vcState) THEN Pass(t, "state", "latest")
       ELSE Reject(t, "state")

\* CheckState that lets every state through.
CheckStateSkipped(t) ==
    /\ pc[t] = "state"
    /\ UNCHANGED <<DSCommittee, mutexDSCommittee, storage, environment, config, probe,
                   sent, message, calls>>
    /\ Pass(t, "state", "epoch")

CheckState(t) ==
    /\ pc[t] = "state"
    /\ UNCHANGED <<DSCommittee, mutexDSCommittee, storage, environment, config, probe,
                   sent, message, calls>>
    /\ IF ~IsDSBlockVCState(Blk(t).header.vcState) THEN Pass(t, "state", "epoch")
       ELSE Reject(t, "state")

\* --------------------------------------------------- Node::ProcessVCBlockCore

CheckEpoch(t) ==
    /\ pc[t] = "epoch"
    /\ UNCHANGED <<DSCommittee, mutexDSCommittee, storage, environment, config, probe,
                   sent, message, calls>>
    /\ IF Blk(t).header.vcEpoch = currentEpochNum THEN Pass(t, "epoch", "latest")
       ELSE Reject(t, "epoch")

CheckLatest(t) ==
    /\ pc[t] = "latest"
    /\ UNCHANGED <<DSCommittee, mutexDSCommittee, storage, environment, config, probe,
                   sent, message, calls>>
    /\ IF CheckWhetherBlockIsLatest(Blk(t).header.vcDSEpoch, Blk(t).header.vcEpoch,
                                    latestDSBlockNum, currentEpochNum)
       THEN Pass(t, "freshness", "hash")
       ELSE Reject(t, "freshness")

CheckHash(t) ==
    /\ pc[t] = "hash"
    /\ UNCHANGED <<DSCommittee, mutexDSCommittee, storage, environment, config, probe,
                   sent, message, calls>>
    /\ IF GetMyHash(Blk(t).header) = Blk(t).blockHash THEN Pass(t, "self-hash", "dup")
       ELSE Reject(t, "self-hash")

\* BlockStorage::GetVCBlock finds the hash.
GetVCBlock(store, hash) == hash \in DOMAIN store

\* CheckDuplicate that never finds the block in the store.
CheckDuplicateBlind(t) ==
    /\ pc[t] = "dup"
    /\ UNCHANGED <<DSCommittee, mutexDSCommittee, storage, environment, config, probe,
                   sent, message, calls>>
    /\ Pass(t, "duplicate", "timestamp")

CheckDuplicate(t) ==
    /\ pc[t] = "dup"
    /\ UNCHANGED <<DSCommittee, mutexDSCommittee, storage, environment, config, probe,
                   sent, message, calls>>
    /\ IF ~GetVCBlock(vcBlockStore, GetMyHash(Blk(t).header))
       THEN Pass(t, "duplicate", "timestamp")
       ELSE Reject(t, "duplicate")

CheckTimestamp(t) ==
    /\ pc[t] = "timestamp"
    /\ UNCHANGED <<DSCommittee, mutexDSCommittee, storage, environment, config, probe,
                   sent, message, calls>>
    /\ IF VerifyTimestamp(Blk(t).timestamp, Tolerance, now)
       THEN Pass(t, "timestamp", "lock")
       ELSE Reject(t, "timestamp")

\* lock_guard<mutex> g(m_mediator.m_mutexDSCommittee)
Lock(t) ==
    /\ pc[t] = "lock"
    /\ mutexDSCommittee = NoThread
    /\ mutexDSCommittee' = t
    /\ pc' = [pc EXCEPT ![t] = "committee-hash"]
    /\ call' = [call EXCEPT ![t].acquired = @ + 1]
    /\ UNCHANGED <<DSCommittee, storage, environment, config, probe, sent, message,
                   calls, prevCall>>

\* The lock_guard goes out of scope.
Unlock(t) == mutexDSCommittee' = (IF mutexDSCommittee = t THEN NoThread ELSE mutexDSCommittee)

\* CheckCommitteeHash with the lock_guard scoped to the comparison alone.
CheckCommitteeHashScopedLock(t) ==
    /\ pc[t] = "committee-hash"
    /\ UNCHANGED <<DSCommittee, storage, environment, config, probe, sent, message, calls>>
    /\ Unlock(t)
    /\ \E hashOk \in BOOLEAN :
         IF hashOk /\ GetDSCommitteeHash(DSCommittee) = Blk(t).header.committeeHash
         THEN /\ pc' = [pc EXCEPT ![t] = "cosig"]
              /\ call' = [call EXCEPT ![t].passed = Append(@, "committee-hash"),
                                      ![t].hashed = <<DSCommittee>>]
              /\ UNCHANGED prevCall
         ELSE Reject(t, "committee-hash")

\* CheckCommitteeHash without the comparison: only a failure of
\* GetDSCommitteeHash rejects.
CheckCommitteeHashUncompared(t) ==
    /\ pc[t] = "committee-hash"
    /\ UNCHANGED <<DSCommittee, storage, environment, config, probe, sent, message, calls>>
    /\ \E hashOk \in BOOLEAN :
         IF hashOk
         THEN /\ pc' = [pc EXCEPT ![t] = "cosig"]
              /\ call' = [call EXCEPT ![t].passed = Append(@, "committee-hash"),
                                      ![t].hashed = <<DSCommittee>>]
              /\ UNCHANGED <<mutexDSCommittee, prevCall>>
         ELSE Reject(t, "committee-hash") /\ Unlock(t)

\* Messenger::GetDSCommitteeHash (which may fail) and the comparison.
CheckCommitteeHash(t) ==
    /\ pc[t] = "committee-hash"
    /\ UNCHANGED <<DSCommittee, storage, environment, config, probe, sent, message, calls>>
    /\ \E hashOk \in BOOLEAN :
         IF hashOk /\ GetDSCommitteeHash(DSCommittee) = Blk(t).header.committeeHash
         THEN /\ pc' = [pc EXCEPT ![t] = "cosig"]
              /\ call' = [call EXCEPT ![t].passed = Append(@, "committee-hash"),
                                      ![t].hashed = <<DSCommittee>>]
              /\ UNCHANGED <<mutexDSCommittee, prevCall>>
         ELSE Reject(t, "committee-hash") /\ Unlock(t)

CheckCoSig(t) ==
    /\ pc[t] = "cosig"
    /\ UNCHANGED <<DSCommittee, storage, environment, config, probe, sent, message, calls>>
    /\ \E serOk \in BOOLEAN :
         IF VerifyVCBlockCoSignature(Blk(t), DSCommittee, serOk)
         THEN Pass(t, "co-signature", "link") /\ UNCHANGED mutexDSCommittee
         ELSE Reject(t, "co-signature") /\ Unlock(t)

\* Link that hands GetLatestIndex() itself to AddBlockLink.
LinkAtLatestIndex(t) ==
    /\ pc[t] = "link"
    /\ blocklinkchain' =
         AddBlockLink(blocklinkchain, GetLatestIndex(blocklinkchain),
                      Blk(t).header.vcDSEpoch, "VC", Blk(t).blockHash)
    /\ pc' = [pc EXCEPT ![t] = "persist"]
    /\ call' = [call EXCEPT ![t].passed = Append(@, "link"),
                            ![t].effects = Append(@, "link")]
    /\ UNCHANGED <<DSCommittee, mutexDSCommittee, vcBlockStore, environment, config, probe,
                   sent, message, calls, prevCall>>

\* GetLatestIndex() + 1 and AddBlockLink
Link(t) ==
    /\ pc[t] = "link"
    /\ blocklinkchain' =
         AddBlockLink(blocklinkchain, GetLatestIndex(blocklinkchain) + 1,
                      Blk(t).header.vcDSEpoch, "VC", Blk(t).blockHash)
    /\ pc' = [pc EXCEPT ![t] = "persist"]
    /\ call' = [call EXCEPT ![t].passed = Append(@, "link"),
                            ![t].effects = Append(@, "link")]
    /\ UNCHANGED <<DSCommittee, mutexDSCommittee, vcBlockStore, environment, config, probe,
                   sent, message, calls, prevCall>>

\* BlockStorage::PutVCBlock on success.
PutVCBlock(store, hash, bytes) ==
    [h \in DOMAIN store \cup {hash} |-> IF h = hash THEN bytes ELSE store[h]]

\* Persist with a write that reaches the store although PutVCBlock reports
\* failure.
PersistTornWrite(t) ==
    /\ pc[t] = "persist"
    /\ UNCHANGED <<DSCommittee, blocklinkchain, environment, config, probe, sent, message, calls>>
    /\ vcBlockStore' = PutVCBlock(vcBlockStore, Blk(t).blockHash, Serialize(Blk(t)))
    /\ \E stored \in BOOLEAN :
         IF stored
         THEN /\ pc' = [pc EXCEPT ![t] = "mutate"]
              /\ call' = [call EXCEPT ![t].passed = Append(@, "persist"),
                                      ![t].effects = Append(@, "put")]
              /\ UNCHANGED <<mutexDSCommittee, prevCall>>
         ELSE Reject(t, "persist") /\ Unlock(t)

\* Persist that takes the link back when PutVCBlock fails.
PersistRollsBack(t) ==
    /\ pc[t] = "persist"
    /\ UNCHANGED <<DSCommittee, environment, config, probe, sent, message, calls>>
    /\ \E stored \in BOOLEAN :
         IF stored
         THEN /\ vcBlockStore' = PutVCBlock(vcBlockStore, Blk(t).blockHash, Serialize(Blk(t)))
              /\ pc' = [pc EXCEPT ![t] = "mutate"]
              /\ call' = [call EXCEPT ![t].passed = Append(@, "persist"),
                                      ![t].effects = Append(@, "put")]
              /\ UNCHANGED <<blocklinkchain, mutexDSCommittee, prevCall>>
         ELSE /\ UNCHANGED vcBlockStore
              /\ blocklinkchain' = SubSeq(blocklinkchain, 1, Len(blocklinkchain) - 1)
              /\ Reject(t, "persist") /\ Unlock(t)

\* Persist that returns from a failed write with the mutex still held.
PersistKeepsMutex(t) ==
    /\ pc[t] = "persist"
    /\ UNCHANGED <<DSCommittee, blocklinkchain, environment, config, probe, sent, message,
                   calls>>
    /\ \E stored \in BOOLEAN :
         IF stored
         THEN /\ vcBlockStore' = PutVCBlock(vcBlockStore, Blk(t).blockHash, Serialize(Blk(t)))
              /\ pc' = [pc EXCEPT ![t] = "mutate"]
              /\ call' = [call EXCEPT ![t].passed = Append(@, "persist"),
                                      ![t].effects = Append(@, "put")]
              /\ UNCHANGED <<mutexDSCommittee, prevCall>>
         ELSE /\ UNCHANGED <<vcBlockStore, mutexDSCommittee>>
              /\ Reject(t, "persist")

\* Persist that goes on to the mutation without having written the block.
PersistSkipsWrite(t) ==
    /\ pc[t] = "persist"
    /\ UNCHANGED <<DSCommittee, blocklinkchain, environment, config, probe, sent, message,
                   calls>>
    /\ \E stored \in BOOLEAN :
         IF stored
         THEN /\ UNCHANGED vcBlockStore
              /\ pc' = [pc EXCEPT ![t] = "mutate"]
              /\ call' = [call EXCEPT ![t].passed = Append(@, "persist"),
                                      ![t].effects = Append(@, "put")]
              /\ UNCHANGED <<mutexDSCommittee, prevCall>>
         ELSE /\ UNCHANGED vcBlockStore
              /\ Reject(t, "persist") /\ Unlock(t)

\* vcblock.Serialize and PutVCBlock, which may fail.
Persist(t) ==
    /\ pc[t] = "persist"
    /\ UNCHANGED <<DSCommittee, blocklinkchain, environment, config, probe, sent, message, calls>>
    /\ \E stored \in BOOLEAN :
         IF stored
         THEN /\ vcBlockStore' = PutVCBlock(vcBlockStore, Blk(t).blockHash, Serialize(Blk(t)))
              /\ pc' = [pc EXCEPT ![t] = "mutate"]
              /\ call' = [call EXCEPT ![t].passed = Append(@, "persist"),
                                      ![t].effects = Append(@, "put")]
              /\ UNCHANGED <<mutexDSCommittee, prevCall>>
         ELSE /\ UNCHANGED vcBlockStore
              /\ Reject(t, "persist") /\ Unlock(t)

\* UpdateDSCommiteeCompositionAfterVC, then ProcessVCBlockCore returns true.
Mutate(t) ==
    /\ pc[t] = "mutate"
    /\ DSCommittee' = UpdateDSCommiteeCompositionAfterVC(Blk(t).header.faulty, DSCommittee,
                                                         SelfKey, GUARD_MODE)
    /\ Unlock(t)
    /\ pc' = [pc EXCEPT ![t] = "fanout"]
    /\ call' = [call EXCEPT ![t].passed = Append(@, "mutate"),
                            ![t].effects = Append(@, "mutate"),
                            ![t].committee = DSCommittee']
    /\ UNCHANGED <<storage, environment, config, probe, sent, message, calls, prevCall>>

\* ------------------------------------------- back in Node::ProcessVCBlock

\* FanOut that forwards the inbound message as it came.
FanOutOriginalMessage(t) ==
    /\ pc[t] = "fanout"
    /\ UNCHANGED <<DSCommittee, mutexDSCommittee, storage, environment, config, probe,
                   message, calls>>
    /\ \E encoded \in BOOLEAN :
         LET forward == ~LOOKUP_NODE_MODE /\ BROADCAST_TREEBASED_CLUSTER_MODE /\ encoded
             c == [call[t] EXCEPT !.result = "true",
                                  !.passed = IF forward THEN Append(@, "fan-out") ELSE @,
                                  !.effects = IF forward THEN Append(@, "send") ELSE @]
         IN  /\ sent' = IF forward
                        THEN Append(sent, SendVCBlockToOtherShardNodes(message[t]))
                        ELSE sent
             /\ Return(t, c)

\* The frame is built anew (SetNodeVCBlock may fail) and forwarded; return true.
FanOut(t) ==
    /\ pc[t] = "fanout"
    /\ UNCHANGED <<DSCommittee, mutexDSCommittee, storage, environment, config, probe,
                   message, calls>>
    /\ \E encoded \in BOOLEAN :
         LET forward == ~LOOKUP_NODE_MODE /\ BROADCAST_TREEBASED_CLUSTER_MODE /\ encoded
             c == [call[t] EXCEPT !.result = "true",
                                  !.passed = IF forward THEN Append(@, "fan-out") ELSE @,
                                  !.effects = IF forward THEN Append(@, "send") ELSE @]
         IN  /\ sent' = IF forward
                        THEN Append(sent, SendVCBlockToOtherShardNodes(SetNodeVCBlock(Blk(t))))
                        ELSE sent
             /\ Return(t, c)

\* ------------------------------------------------------------- environment

\* Another pipeline commits a Tx block: the node moves to the next epoch.
AdvanceEpoch ==
    /\ currentEpochNum < MaxEpoch
    /\ currentEpochNum' = currentEpochNum + 1
    /\ UNCHANGED <<DSCommittee, mutexDSCommittee, storage, latestDSBlockNum, now,
                   config, probe, sent, pc, message, call, prevCall, calls>>

Next ==
    \/ \E t \in Threads : \E frame \in Messages : Receive(t, frame)
    \/ \E t \in Threads : Decode(t)
    \/ \E t \in Threads : CheckVersion(t)
    \/ \E t \in Threads : CheckState(t)
    \/ \E t \in Threads : CheckEpoch(t)
    \/ \E t \in Threads : CheckLatest(t)
    \/ \E t \in Threads : CheckHash(t)
    \/ \E t \in Threads : CheckDuplicate(t)
    \/ \E t \in Threads : CheckTimestamp(t)
    \/ \E t \in Threads : Lock(t)
    \/ \E t \in Threads : CheckCommitteeHash(t)
    \/ \E t \in Threads : CheckCoSig(t)
    \/ \E t \in Threads : Link(t)
    \/ \E t \in Threads : Persist(t)
    \/ \E t \in Threads : Mutate(t)
    \/ \E t \in Threads : FanOut(t)
    \/ AdvanceEpoch

Spec == Init /\ [][Next]_vars

\* ============================================================== properties

Calls == {t \in Threads : call[t].result # "none"}
Done == {t \in Threads : pc[t] = "idle" /\ call[t].result \in {"true", "false"}}

\* A finished call no other call overlapped and during which the epoch stood.
Undisturbed(t) ==
    t \in Done /\ call[t].concurrent = {} /\ call[t].epoch = call[t].epochIn

Min(S) == CHOOSE x \in S : \A y \in S : x <= y

\* The gates in the order of the statements of ProcessVCBlock and
\* ProcessVCBlockCore, and the side effects with the gate each belongs to.
GateOrder ==
    <<"decode", "version", "state", "epoch", "freshness", "self-hash", "duplicate",
      "timestamp", "committee-hash", "co-signature", "link", "persist", "mutate",
      "fan-out">>
GateIndex(g) == CHOOSE i \in DOMAIN GateOrder : GateOrder[i] = g
EffectOrder == <<"link", "put", "mutate", "send">>
EffectGate == [link |-> "link", put |-> "persist", mutate |-> "mutate", send |-> "fan-out"]

\* Gates whose outcome also depends on a call that may fail by itself
\* (GetDSCommitteeHash, the header's Serialize).
FallibleGates == {"committee-hash", "co-signature"}

\* The gates (by index) the frame of call t violates in the state the call
\* started in.
ViolatedGates(t) ==
    LET b == Blk(t)
        c == call[t]
    IN  IF ~Decodes(message[t]) THEN {1}
        ELSE {i \in 2..10 :
                \/ i = 2 /\ b.header.version # VCBLOCK_VERSION
                \/ i = 3 /\ IsDSBlockVCState(b.header.vcState)
                \/ i = 4 /\ b.header.vcEpoch # c.epochIn
                \/ i = 5 /\ ~CheckWhetherBlockIsLatest(b.header.vcDSEpoch, b.header.vcEpoch,
                                                       latestDSBlockNum, c.epochIn)
                \/ i = 6 /\ GetMyHash(b.header) # b.blockHash
                \/ i = 7 /\ GetVCBlock(c.storeIn, GetMyHash(b.header))
                \/ i = 8 /\ ~VerifyTimestamp(b.timestamp, Tolerance, now)
                \/ i = 9 /\ GetDSCommitteeHash(c.committeeIn) # b.header.committeeHash
                \/ i = 10 /\ ~VerifyVCBlockCoSignature(b, c.committeeIn, TRUE)}

\* C1: a call of ProcessVCBlock that returns false has written neither the
\* block store nor the DS committee, whatever gate failed; when no other call
\* ran beside it, the store and the committee at its return are exactly the
\* store and the committee at its start.
FailureLeavesStoreAndCommittee ==
    \A t \in Threads :
        call[t].result = "false" =>
            /\ "put" \notin Range(call[t].effects)
            /\ "mutate" \notin Range(call[t].effects)
            /\ call[t].concurrent = {} =>
                 /\ call[t].store = call[t].storeIn
                 /\ call[t].committee = call[t].committeeIn

\* A call that failed at the last gate that can fail, on a node that already
\* holds a block.
FailedAtPersistWitness ==
    \E t \in Threads :
        /\ call[t].result = "false"
        /\ call[t].gate = "persist"
        /\ call[t].concurrent = {}
        /\ DOMAIN call[t].storeIn # {}
        /\ call[t].committeeIn # InitCommittee

\* C2: the gates run in the one order of GateOrder: what a call has passed is
\* a prefix of it, a failing call fails at the next gate, its side effects
\* come in order and each only with every earlier gate passed, and a frame
\* that violates several gates is rejected at the earliest of them (or at an
\* earlier gate that failed by itself).
GatesRunInOrder ==
    \A t \in Calls :
        LET c == call[t]
            n == Len(c.passed)
            V == ViolatedGates(t)
        IN  /\ n <= Len(GateOrder)
            /\ c.passed = SubSeq(GateOrder, 1, n)
            /\ c.result = "false" => n < Len(GateOrder) /\ c.gate = GateOrder[n + 1]
            /\ Len(c.effects) <= Len(EffectOrder)
            /\ c.effects = SubSeq(EffectOrder, 1, Len(c.effects))
            /\ \A i \in DOMAIN c.effects : GateIndex(EffectGate[c.effects[i]]) <= n
            /\ (Undisturbed(t) /\ V # {}) =>
                 /\ c.result = "false"
                 /\ c.effects = <<>>
                 /\ \/ GateIndex(c.gate) = Min(V)
                    \/ GateIndex(c.gate) < Min(V) /\ c.gate \in FallibleGates

\* A frame that violates two gates was rejected at the earlier one.
EarliestGateWitness ==
    \E t \in Threads :
        /\ Undisturbed(t)
        /\ Cardinality(ViolatedGates(t)) >= 2
        /\ call[t].result = "false"
        /\ GateIndex(call[t].gate) = Min(ViolatedGates(t))

\* C3: when the block of a call that returned true is submitted again right
\* after it, the epoch being the same from the start of the first call to the
\* return of the second, the second call returns false at the duplicate gate
\* and leaves the committee the first call left.
SecondSubmissionIsDuplicate ==
    \A t \in Threads :
        (/\ Undisturbed(t)
         /\ call[t].before.result = "true"
         /\ Decodes(message[t])
         /\ GetNodeVCBlock(call[t].before.frame) = Blk(t)
         /\ call[t].before.epochIn = call[t].epochIn
         /\ call[t].before.epoch = call[t].epochIn)
        => /\ call[t].result = "false"
           /\ call[t].gate = "duplicate"
           /\ call[t].committee = call[t].before.committee
           /\ call[t].store = call[t].storeIn

\* The same block went through twice: applied, then rejected as a duplicate.
ResubmittedWitness ==
    \E t \in Threads :
        /\ Undisturbed(t)
        /\ call[t].before.result = "true"
        /\ Decodes(message[t])
        /\ GetNodeVCBlock(call[t].before.frame) = Blk(t)
        /\ call[t].gate = "duplicate"
        /\ call[t].committee # InitCommittee

\* Two calls that ran side by side on blocks of the same Tx epoch.
SideBySide(t, u) ==
    /\ t # u
    /\ t \in Calls /\ u \in Calls
    /\ u \in call[t].concurrent \/ t \in call[u].concurrent
    /\ Decodes(message[t]) /\ Decodes(message[u])
    /\ Blk(t).header.vcEpoch = Blk(u).header.vcEpoch

\* C4: of two calls that run side by side on blocks with the same
\* view-change epoch, at most one appends to the block-link chain.
AtMostOneReachesLink ==
    \A t, u \in Threads :
        SideBySide(t, u) =>
            ~("link" \in Range(call[t].effects) /\ "link" \in Range(call[u].effects))

\* C5: the committee mutex is taken once in a call and is held by the call
\* from the committee-hash check until the committee is mutated; all that
\* while the committee is the one that was hashed.
LockedSteps == {"committee-hash", "cosig", "link", "persist", "mutate"}
MutexHeldFromHashToMutation ==
    \A t \in Threads :
        /\ pc[t] \in LockedSteps =>
             /\ mutexDSCommittee = t
             /\ call[t].acquired = 1
        /\ pc[t] \in LockedSteps \ {"committee-hash"} => call[t].hashed = <<DSCommittee>>
        /\ pc[t] \notin LockedSteps => mutexDSCommittee # t
        /\ t \in Calls => call[t].acquired <= 1
        /\ (t \in Calls /\ "timestamp" \in Range(call[t].passed) /\ pc[t] # "lock")
             => call[t].acquired = 1

\* One call is about to mutate the committee while another waits for the
\* mutex.
ContendedMutexWitness ==
    \E t, u \in Threads :
        /\ pc[t] = "mutate"
        /\ pc[u] = "lock"
        /\ Blk(t).header.faulty # <<>>
        /\ ~GUARD_MODE

\* ================================================= the reshuffling by itself

\* Longest list of faulty leaders in a header.
MaxFaulty == 3
\* VC blocks applied one after the other.
MaxApplies == 2

\* A committee as its member with key self stores it.
ViewOf(keys, self) ==
    [i \in DOMAIN keys |-> IF keys[i] = self THEN SelfEntry(self) ELSE Member(keys[i])]

\* The committees the reshuffling is applied to, by the keys of the members.
BaseCommittees == { <<"A", "B", "C">>, <<"A", "B", "C", "D", "E">> }

\* What a header may list as a faulty leader: members with their address, a
\* key that is in no committee, and A as A itself stores it.
FaultyPairs == {Member("A"), Member("B"), Member("D"), Member("X"), SelfEntry("A")}
FaultyLists == UNION {[1..k -> FaultyPairs] : k \in 0..MaxFaulty}

\* Nodes A and B hold their views of one committee.
InitMut ==
    /\ InitNode
    /\ \E keys \in BaseCommittees :
         probe = [faulty |-> <<>>, kind |-> "views", applied |-> 0,
                  viewA |-> ViewOf(keys, "A"), viewB |-> ViewOf(keys, "B"),
                  preA |-> ViewOf(keys, "A"), preB |-> ViewOf(keys, "B")]

\* A and B both run UpdateDSCommiteeCompositionAfterVC on a block that lists
\* faulty.
ApplyVCBlock(faulty) ==
    /\ probe.kind = "views"
    /\ probe.applied < MaxApplies
    /\ probe' = [probe EXCEPT
                   !.faulty = faulty,
                   !.applied = @ + 1,
                   !.preA = probe.viewA,
                   !.preB = probe.viewB,
                   !.viewA = UpdateDSCommiteeCompositionAfterVC(faulty, probe.viewA, "A",
                                                                GUARD_MODE),
                   !.viewB = UpdateDSCommiteeCompositionAfterVC(faulty, probe.viewB, "B",
                                                                GUARD_MODE)]
    /\ UNCHANGED <<node, config>>

NextMut == \E faulty \in FaultyLists : ApplyVCBlock(faulty)

SpecMut == InitMut /\ [][NextMut]_vars

Applied == probe.kind = "views" /\ probe.applied > 0 /\ ~GUARD_MODE

Count(s, x) == Cardinality({i \in DOMAIN s : s[i] = x})
LastIndex(s, x) ==
    IF x \in Range(s) THEN CHOOSE i \in DOMAIN s : s[i] = x /\ \A j \in (i + 1)..Len(s) : s[j] # x
    ELSE 0
NoRepeats(s) == \A i, j \in DOMAIN s : s[i] = s[j] => i = j

\* C6: after a block is applied (guard mode off), every pair the header
\* lists occurs in the committee exactly once, and after every member the
\* header does not list.
FaultyOnceAndLast ==
    Applied =>
        \A v \in {probe.viewA, probe.viewB} :
            \A f \in Range(probe.faulty) :
                /\ Count(v, f) = 1
                /\ \A i \in DOMAIN v : v[i] \notin Range(probe.faulty) => i < Find(v, f)

\* Two leaders were ejected, one of them twice over.
TwoEjectedWitness ==
    /\ Applied
    /\ Len(probe.faulty) = 3
    /\ Cardinality(Range(probe.faulty)) = 2
    /\ Range(probe.faulty) \subseteq Range(probe.preB)
    /\ probe.viewB # probe.preB

\* C7 as stated: for every list of faulty leaders, repeated entries and
\* entries that are not in the committee included, some position i of each
\* entry f in the list of length k has f last at index len - (k - i) of the
\* committee (positions and indices counted from 0).
LastIndexMatchesAnyList ==
    Applied =>
        \A v \in {probe.viewA, probe.viewB} :
            \A f \in Range(probe.faulty) :
                \E i \in DOMAIN probe.faulty :
                    /\ probe.faulty[i] = f
                    /\ LastIndex(v, f) = Len(v) - Len(probe.faulty) + i

\* C7 amended: for every list of faulty leaders without repeated entries,
\* entries that are not in the committee included, the entry at position i
\* of the list of length k is last at index len - (k - i) of the committee.
LastIndexMatches ==
    (Applied /\ NoRepeats(probe.faulty)) =>
        \A v \in {probe.viewA, probe.viewB} :
            \A i \in DOMAIN probe.faulty :
                LastIndex(v, probe.faulty[i]) = Len(v) - Len(probe.faulty) + i

\* Three different leaders, one of them not in the committee, were ejected.
AbsentLeaderWitness ==
    /\ Applied
    /\ Len(probe.faulty) = 3
    /\ NoRepeats(probe.faulty)
    /\ Member("X") \in Range(probe.faulty)
    /\ Member("X") \notin Range(probe.preA)
    /\ Member("B") \in Range(probe.faulty)

\* The members of committee the header does not list, in committee order,
\* and the listed leaders in header order, each where it is listed last.
NonFaulty(committee, faulty) ==
    SelectSeq(committee, LAMBDA member : member \notin Range(faulty))
RECURSIVE InHeaderOrder(_)
InHeaderOrder(faulty) ==
    IF faulty = <<>> THEN <<>>
    ELSE (IF Head(faulty) \in Range(Tail(faulty)) THEN <<>> ELSE <<Head(faulty)>>)
         \o InHeaderOrder(Tail(faulty))

ExampleStart == ViewOf(<<"A", "B", "C", "D", "E">>, "A")
ExampleMiddle ==
    <<SelfEntry("A"), Member("C"), Member("E"), Member("B"), Member("D")>>
ExampleEnd ==
    <<SelfEntry("A"), Member("C"), Member("E"), Member("D"), Member("B")>>

ViewsAgreeUpToSelf ==
    Applied =>
        /\ Len(probe.viewA) = Len(probe.viewB)
        /\ \A i \in DOMAIN probe.viewA :
             i \in DOMAIN probe.viewB => probe.viewA[i][1] = probe.viewB[i][1]

\* ============================================ co-signature check by itself

\* Largest DS committee the co-signature check is run against.
MaxCommittee == 6

AllKeys == <<"A", "B", "C", "D", "E", "F", "G", "H">>
Committees == {ViewOf(SubSeq(AllKeys, 1, n), SelfKey) : n \in 1..MaxCommittee}

BitVectors(n) == [1..n -> BOOLEAN]
Around(n) == {m \in {n - 1, n, n + 1} : m >= 0}

\* The blocks put to a node whose committee is committee: any second-round
\* bitmap of the committee's length or one off, a first-round bitmap of the
\* committee's length or one off, signed by the members b2 selects or with a
\* signature made over another message.
CoSigBlocks(committee) ==
    LET n == Len(committee)
        header == MkHeader(VCBLOCK_VERSION, 1, 1, "FINALBLOCK_CONSENSUS", <<>>,
                           GetDSCommitteeHash(committee))
        signed == {[MkBlock(header, AllSet(l1), AllSet(n), committee, StartTime) EXCEPT
                      !.b2 = b2,
                      !.cs2 = Sign(CoSigMessage([header |-> header, cs1 |-> "cs1",
                                                 b1 |-> AllSet(l1)]),
                                   AggregatePubKeys(KeysAt(committee, b2)))] :
                     l1 \in Around(n), b2 \in UNION {BitVectors(l2) : l2 \in Around(n)}}
    IN  signed \cup {ForgedCS2(b) : b \in signed}

InitCoSig ==
    /\ InitNode
    /\ \E committee \in Committees :
         probe = [committee |-> committee, vcblock |-> Base, serOk |-> TRUE,
                  kind |-> "cosig", checked |-> FALSE, verdict |-> FALSE,
                  exit |-> "none"]

\* Node::VerifyVCBlockCoSignature is run on one of the blocks.
VerifyCoSig(serOk) ==
    /\ probe.kind = "cosig"
    /\ ~probe.checked
    /\ \E vcblock \in CoSigBlocks(probe.committee) :
         probe' = [probe EXCEPT
                     !.checked = TRUE,
                     !.vcblock = vcblock,
                     !.serOk = serOk,
                     !.verdict = VerifyVCBlockCoSignature(vcblock, probe.committee, serOk),
                     !.exit = CoSigExit(vcblock, probe.committee, serOk)]
    /\ UNCHANGED <<node, config>>

NextCoSig == \E serOk \in BOOLEAN : VerifyCoSig(serOk)

SpecCoSig == InitCoSig /\ [][NextCoSig]_vars

Admitted == probe.kind = "cosig" /\ probe.checked /\ probe.verdict

\* C10 as stated: a block that passes the co-signature check has a b1 and a
\* b2 of the length of the committee it is checked against.
AdmittedBitmapsMatchCommittee ==
    Admitted =>
        /\ Len(probe.vcblock.b1) = Len(probe.vcblock.b2)
        /\ Len(probe.vcblock.b2) = Len(probe.committee)

\* C10 amended: a block that passes the co-signature check has a b2 of the
\* length of the committee it is checked against.
AdmittedB2MatchesCommittee ==
    Admitted => Len(probe.vcblock.b2) = Len(probe.committee)

\* A block was admitted by a committee of six on five signatures.
AdmittedWitness ==
    /\ Admitted
    /\ Len(probe.committee) = 6
    /\ \E i \in DOMAIN probe.vcblock.b2 : ~probe.vcblock.b2[i]

PopCount(bits) == Cardinality({i \in DOMAIN bits : bits[i]})
\* The least k with 3k >= 2n.
CeilTwoThirds(n) == CHOOSE k \in 0..n : 3 * k >= 2 * n /\ 3 * (k - 1) < 2 * n

\* C11: a block that passes the co-signature check has exactly
\* ceil(2|b2|/3) + 1 bits set in b2, and a block with any other number of set
\* bits (ceil(2n/3) of them, or more than the threshold) is rejected at the
\* size check or the count check, before any key is aggregated.
AdmittedHasExactlyThreshold ==
    (probe.kind = "cosig" /\ probe.checked) =>
        LET b2 == probe.vcblock.b2 IN
        /\ probe.verdict <=> probe.exit = "true"
        /\ probe.verdict => PopCount(b2) = CeilTwoThirds(Len(b2)) + 1
        /\ PopCount(b2) # CeilTwoThirds(Len(b2)) + 1 =>
             ~probe.verdict /\ probe.exit \in {"size", "count"}
        /\ (Len(b2) = Len(probe.committee) /\ PopCount(b2) # CeilTwoThirds(Len(b2)) + 1)
             => probe.exit = "count"

\* Six members, four of them (ceil(2*6/3)) signed and their signature is good:
\* rejected at the count check.
OneSignerShortWitness ==
    /\ probe.kind = "cosig" /\ probe.checked
    /\ Len(probe.committee) = 6
    /\ Len(probe.vcblock.b2) = 6
    /\ PopCount(probe.vcblock.b2) = 4
    /\ probe.serOk
    /\ probe.vcblock.cs2 = Sign(CoSigMessage(probe.vcblock),
                                AggregatePubKeys(KeysAt(probe.committee, probe.vcblock.b2)))
    /\ probe.exit = "count"

\* C12: whenever a call appends the link of its block (the block is
\* committed), the block's view-change epoch is the node's current epoch, also
\* when the epoch was advanced while the call was in progress.
CommittedAtCurrentEpoch ==
    [][\A t \in Threads :
         (pc[t] = "link" /\ pc'[t] = "persist") =>
             Blk(t).header.vcEpoch = currentEpochNum]_vars

\* C13: a call links, stores and applies its block only while the block's
\* committee hash is the hash of the DS committee the node holds at that step
\* (for the mutation: the committee right before it); a call that reaches the
\* committee-hash gate with a block whose committee hash differs returns false
\* there and the step leaves the committee, the chain and the store as they
\* were.
CommitteeHashBindsCommit ==
    [][\A t \in Threads :
         LET hash == Blk(t).header.committeeHash IN
         /\ (pc[t] \in {"link", "persist", "mutate"} /\ pc'[t] # pc[t]) =>
                hash = GetDSCommitteeHash(DSCommittee)
         /\ (pc[t] = "committee-hash" /\ pc'[t] # pc[t]
               /\ hash # GetDSCommitteeHash(DSCommittee)) =>
                /\ pc'[t] = "idle"
                /\ call'[t].result = "false"
                /\ call'[t].gate = "committee-hash"
                /\ call'[t].effects = <<>>
                /\ UNCHANGED <<DSCommittee, blocklinkchain, vcBlockStore>>]_vars

\* Two calls ran side by side: one committed its block and changed the
\* committee, the other was then rejected at the committee-hash gate.
CommitteeMovedUnderRivalWitness ==
    \E t, u \in Threads :
        /\ t # u
        /\ call[t].result = "true"
        /\ "mutate" \in Range(call[t].effects)
        /\ call[t].committee # call[t].committeeIn
        /\ call[u].result = "false"
        /\ t \in call[u].concurrent
        /\ call[u].gate = "committee-hash"
        /\ Blk(u).header.committeeHash = GetDSCommitteeHash(call[t].committeeIn)

\* C14: PutVCBlock is never executed for a hash the block store already
\* holds: a call that gets past the persist step found its block's hash
\* absent from the store.
PutOnlyOnAbsentHash ==
    [][\A t \in Threads :
         (pc[t] = "persist" /\ pc'[t] = "mutate") =>
             ~GetVCBlock(vcBlockStore, Blk(t).blockHash)]_vars

\* The indices of the chain are 0, 1, 2, ... in order.
Contiguous(chain) == \A i \in DOMAIN chain : chain[i].index = i - 1

\* C15: the indices of the block-link chain are 0,1,2,... without gap or
\* repeat before and after every step; the chain only grows at its end; and
\* the link step of a call appends exactly one link, with index
\* GetLatestIndex()+1, type VC, the header's view-change DS epoch and the
\* block's hash.
LinksAreContiguousAndVC ==
    [][/\ Contiguous(blocklinkchain)
       /\ Contiguous(blocklinkchain')
       /\ Len(blocklinkchain') >= Len(blocklinkchain)
       /\ SubSeq(blocklinkchain', 1, Len(blocklinkchain)) = blocklinkchain
       /\ \A t \in Threads :
            (pc[t] = "link" /\ pc'[t] # pc[t]) =>
                blocklinkchain' =
                    Append(blocklinkchain,
                           [dsEpoch |-> Blk(t).header.vcDSEpoch,
                            index |-> GetLatestIndex(blocklinkchain) + 1,
                            blockType |-> "VC",
                            hash |-> Blk(t).blockHash])]_vars

\* Two calls ran side by side and each appended the link of its own block.
TwoLinksWitness ==
    /\ Len(blocklinkchain) = 3
    /\ blocklinkchain[2].blockType = "VC"
    /\ blocklinkchain[3].blockType = "VC"
    /\ blocklinkchain[3].index = 2
    /\ blocklinkchain[2].hash # blocklinkchain[3].hash
    /\ \E t \in Threads : call[t].result = "true" /\ call[t].concurrent # {}

\* The chain holds a VC link for hash.
Linked(chain, hash) ==
    \E i \in DOMAIN chain : chain[i].blockType = "VC" /\ chain[i].hash = hash

\* C16: with GUARD_MODE set no step changes the DS committee; at the mutation
\* step of a call both UpdateDSCommiteeCompositionAfterVC and
\* UpdateRetrieveDSCommiteeCompositionAfterVC return the committee they are
\* given, for the call's block and for every faulty-leader list; the call has
\* by then linked and stored its block, goes on to the fan-out and returns
\* true.
GuardModeFreezesCommittee ==
    [][GUARD_MODE =>
         /\ DSCommittee' = DSCommittee
         /\ \A t \in Threads :
              /\ (pc[t] = "mutate" /\ pc'[t] # pc[t]) =>
                   /\ \A faulty \in FaultyLists \cup {Blk(t).header.faulty} :
                        /\ UpdateDSCommiteeCompositionAfterVC(faulty, DSCommittee, SelfKey,
                                                              GUARD_MODE) = DSCommittee
                        /\ UpdateRetrieveDSCommiteeCompositionAfterVC(faulty, DSCommittee,
                                                                      GUARD_MODE) = DSCommittee
                   /\ Linked(blocklinkchain', Blk(t).blockHash)
                   /\ GetVCBlock(vcBlockStore', Blk(t).blockHash)
                   /\ vcBlockStore'[Blk(t).blockHash] = Serialize(Blk(t))
                   /\ pc'[t] = "fanout"
              /\ (pc[t] = "fanout" /\ pc'[t] # pc[t]) =>
                   /\ call'[t].result = "true"
                   /\ call'[t].effects[3] = "mutate"
                   /\ call'[t].committee = DSCommittee]_vars

\* In guard mode a call returned true for a block that lists a faulty leader:
\* the block is linked and stored and the committee is the initial one.
GuardModeCommitWitness ==
    \E t \in Threads :
        /\ GUARD_MODE
        /\ call[t].result = "true"
        /\ Blk(t).header.faulty # <<>>
        /\ Linked(blocklinkchain, Blk(t).blockHash)
        /\ GetVCBlock(vcBlockStore, Blk(t).blockHash)
        /\ DSCommittee = InitCommittee
        /\ EjectAll(DSCommittee, Blk(t).header.faulty, SelfKey) # DSCommittee

\* The frame of worker t carries a block in a DS-block-coupled state.
CarriesDSState(t) ==
    Decodes(message[t]) /\ IsDSBlockVCState(Blk(t).header.vcState)

\* C17: a call whose block is in a DS-block-coupled state never gets past the
\* state check of ProcessVCBlock: it returns false at the version or the state
\* check, and none of its steps changes the chain, the store or the committee
\* or sends anything.
DSStateBlockIsRejected ==
    [][\A t \in Threads :
         (CarriesDSState(t) /\ pc[t] \notin {"idle", "decode"}) =>
             /\ pc[t] \in {"version", "state"}
             /\ call[t].effects = <<>>
             /\ pc'[t] # pc[t] =>
                  /\ UNCHANGED <<blocklinkchain, vcBlockStore, DSCommittee, sent>>
                  /\ pc[t] = "state" =>
                       /\ pc'[t] = "idle"
                       /\ call'[t].result = "false"
                       /\ call'[t].gate = "state"
                       /\ call'[t].effects = <<>>]_vars

\* A block that violates the state check and no other gate was rejected at the
\* state check.
OnlyStateViolatedWitness ==
    \E t \in Threads :
        /\ Undisturbed(t)
        /\ CarriesDSState(t)
        /\ ViolatedGates(t) = {GateIndex("state")}
        /\ call[t].result = "false"
        /\ call[t].gate = "state"
        /\ blocklinkchain = InitChain
        /\ vcBlockStore = << >>
        /\ sent = <<>>

\* =================================================== the timestamp gate alone

MaxClock == 12
MaxSkew == 3

\* Clock readings, and the timestamps a block may carry around a reading.
Clocks == StartTime..MaxClock
TimestampsAround(clock) ==
    {ts \in 0..(MaxClock + Tolerance + MaxSkew) :
        ts >= clock - Tolerance - MaxSkew /\ ts <= clock + Tolerance + MaxSkew}

InitTime ==
    /\ InitNode
    /\ \E clock \in Clocks :
         probe = [timestamp |-> clock, kind |-> "time", checked |-> FALSE,
                  verdict |-> FALSE, clock |-> clock]

\* The timestamp check of ProcessVCBlockCore on a block with timestamp ts.
VerifyTime(ts) ==
    /\ probe.kind = "time"
    /\ ~probe.checked
    /\ probe' = [probe EXCEPT
                   !.checked = TRUE,
                   !.timestamp = ts,
                   !.verdict = VerifyTimestamp(ts, Tolerance, probe.clock)]
    /\ UNCHANGED <<node, config>>

NextTime == \E ts \in TimestampsAround(probe.clock) : VerifyTime(ts)

SpecTime == InitTime /\ [][NextTime]_vars

\* The distance of two readings.
Distance(a, b) == IF a >= b THEN a - b ELSE b - a

\* C18: the timestamp check passes exactly the timestamps that are at most
\* CONSENSUS_OBJECT_TIMEOUT + VIEWCHANGE_TIME + VIEWCHANGE_PRECHECK_TIME +
\* VIEWCHANGE_EXTRA_TIME away from the clock reading, on either side: the
\* reading plus that sum is accepted, one more is rejected.
TimestampWithinTolerance ==
    (probe.kind = "time" /\ probe.checked) =>
        LET sum == CONSENSUS_OBJECT_TIMEOUT + VIEWCHANGE_TIME + VIEWCHANGE_PRECHECK_TIME
                   + VIEWCHANGE_EXTRA_TIME
        IN  /\ probe.verdict <=> Distance(probe.timestamp, probe.clock) <= sum
            /\ probe.timestamp = probe.clock + sum => probe.verdict
            /\ probe.timestamp = probe.clock + sum + 1 => ~probe.verdict
            /\ probe.timestamp = probe.clock - sum => probe.verdict
            /\ probe.timestamp = probe.clock - sum - 1 => ~probe.verdict

\* A block stamped exactly the tolerance ahead of the clock was accepted.
UpperEdgeAcceptedWitness ==
    /\ probe.kind = "time"
    /\ probe.checked
    /\ probe.timestamp = probe.clock + CONSENSUS_OBJECT_TIMEOUT + VIEWCHANGE_TIME
                         + VIEWCHANGE_PRECHECK_TIME + VIEWCHANGE_EXTRA_TIME
    /\ probe.verdict

\* ======================================================== the fan-out alone

\* The node is built with some pair of constants.
InitCluster ==
    /\ InitNode
    /\ \E numForwarded \in 0..UIntMax, numDSElection \in 0..UIntMax :
         probe = [numForwarded |-> numForwarded, numDSElection |-> numDSElection,
                  cluster_size |-> 0, num_of_child_clusters |-> 0,
                  kind |-> "cluster", applied |-> FALSE]

\* SendVCBlockToOtherShardNodes: what it hands to SendBlockToOtherShardNodes.
SendToShard ==
    /\ probe.kind = "cluster"
    /\ ~probe.applied
    /\ probe' = [probe EXCEPT
                   !.applied = TRUE,
                   !.cluster_size = ClusterSize(probe.numForwarded, probe.numDSElection),
                   !.num_of_child_clusters = NUM_OF_TREEBASED_CHILD_CLUSTERS]
    /\ UNCHANGED <<node, config>>

NextCluster == SendToShard

SpecCluster == InitCluster /\ [][NextCluster]_vars

Max(a, b) == IF a >= b THEN a ELSE b

\* C19: for every pair of constants the cluster size handed over is
\* max(NUM_FORWARDED_BLOCK_RECEIVERS_PER_SHARD, NUM_DS_ELECTION + 1), which is
\* greater than NUM_DS_ELECTION, and NUM_OF_TREEBASED_CHILD_CLUSTERS goes
\* with it.
ClusterSizeIsMax ==
    (probe.kind = "cluster" /\ probe.applied) =>
        /\ probe.cluster_size = Max(probe.numForwarded, probe.numDSElection + 1)
        /\ probe.cluster_size > probe.numDSElection
        /\ probe.num_of_child_clusters = NUM_OF_TREEBASED_CHILD_CLUSTERS

\* ================================================= the difficulty retarget

\* The arguments of one call, and the value BOOST_REQUIRE demands of its
\* result (NoRequire: the result is only written to the csv file).
NoRequire == -1
PowParams(cur, min, nodes, subs, expected, thr, epoch, perYear, required) ==
    [required |-> required, currentDifficulty |-> cur, minDifficulty |-> min,
     currentNodes |-> nodes, powSubmissions |-> subs, expectedNodes |-> expected,
     adjustThreshold |-> thr, currentEpoch |-> epoch, numBlocksPerYear |-> perYear]

\* int64_t division: the quotient is truncated toward zero (b > 0).
TruncDiv(a, b) == IF a >= 0 THEN a \div b ELSE -((-a) \div b)

\* delta * 100 / expected_nodes with delta = pow_submissions - expected_nodes.
SubmissionPercent(p) == TruncDiv((p.powSubmissions - p.expectedNodes) * 100, p.expectedNodes)

\* The epoch is a calibration boundary.
IsCalibrationBoundary(p) == p.currentEpoch % p.numBlocksPerYear = 0

\* The submission-based step of the retarget: +1, -1 or 0.
SubmissionStep(p) ==
    IF SubmissionPercent(p) >= p.adjustThreshold /\ p.currentNodes >= p.expectedNodes THEN 1
    ELSE IF -SubmissionPercent(p) >= p.adjustThreshold /\ p.currentNodes < p.expectedNodes
         THEN -1
         ELSE 0

\* Clamp that lets a value above hi wrap around as an 8-bit addition does.
ClampWrapping(x, lo, hi) == IF x < lo THEN lo ELSE x % (hi + 1)

Clamp(x, lo, hi) == IF x < lo THEN lo ELSE IF x > hi THEN hi ELSE x

\* CalculateNewDifficultyCore with the secular increment applied twice at a
\* calibration boundary.
RetargetWithDoubleBump(p) ==
    Clamp(Max(p.currentDifficulty + SubmissionStep(p), p.minDifficulty)
          + (IF IsCalibrationBoundary(p) THEN 2 ELSE 0),
          p.minDifficulty, 255)

\* DirectoryService::CalculateNewDifficultyCore: the submission-based step,
\* never to below min_difficulty; the secular increment at a calibration
\* boundary; the result clamped to [min_difficulty, 255].
CalculateNewDifficultyCore(p) ==
    Clamp(Max(p.currentDifficulty + SubmissionStep(p), p.minDifficulty)
          + (IF IsCalibrationBoundary(p) THEN 1 ELSE 0),
          p.minDifficulty, 255)

\* The calls of the test cases difficulty_adjustment_small_network,
\* _large_network, _for_ds_small and _for_ds_large, in their order.
difficulty_adjustment_small_network ==
    << PowParams(3, 3, 20, 23, 200, 99, 200, 10000, 4),
       PowParams(3, 3, 20, 23, 200, 99, 10000, 10000, 5),
       PowParams(6, 3, 20, 19, 200, 99, 10001, 10000, 5),
       PowParams(14, 3, 200, 201, 200, 99, 100000, 10000, 15) >>
difficulty_adjustment_large_network ==
    << PowParams(3, 3, 5000, 5100, 10000, 99, 200, 1971000, 4),
       PowParams(4, 3, 10001, 10002, 10000, 99, 1971001, 1971000, 5),
       PowParams(10, 3, 8000, 7999, 10000, 99, 1971005, 1971000, 9),
       PowParams(5, 3, 8000, 8000, 10000, 99, 1971009, 1971000, 5),
       PowParams(14, 3, 10002, 10005, 10000, 99, 19710000, 1971000, 16) >>
difficulty_adjustment_for_ds_small ==
    << PowParams(9, 5, 10, 11, 10, 9, 80, 1971000, 9) >>
difficulty_adjustment_for_ds_large ==
    << PowParams(5, 5, 100, 110, 100, 9, 200, 1971000, 6),
       PowParams(6, 5, 102, 103, 100, 9, 1971000, 1971000, 8),
       PowParams(8, 5, 103, 99, 100, 9, 1971001, 1971000, 8),
       PowParams(14, 5, 102, 102, 100, 9, 19710000, 1971000, 15) >>

DifficultyTests ==
    Range(difficulty_adjustment_small_network)
    \cup Range(difficulty_adjustment_large_network)
    \cup Range(difficulty_adjustment_for_ds_small)
    \cup Range(difficulty_adjustment_for_ds_large)

\* difficulty_adjustment_range_test: for currentNodes = 100, 1100, ... up to
\* MaxRangeNodes, the five calls of one round of the loop.
MaxRangeNodes == 100000
RangeNodes == {n \in 100..MaxRangeNodes : (n - 100) % 1000 = 0}
RangeSubmissions(currentNodes) ==
    { currentNodes - (currentNodes \div 5), currentNodes - (currentNodes \div 20),
      currentNodes,
      currentNodes + (currentNodes \div 20), currentNodes + (currentNodes \div 5) }
difficulty_adjustment_range_test ==
    UNION { { PowParams(10, 5, currentNodes, powSubmissions, currentNodes, 9, 200, 1971000,
                        NoRequire) : powSubmissions \in RangeSubmissions(currentNodes) } :
            currentNodes \in RangeNodes }

InitDifficulty ==
    /\ InitNode
    /\ probe = [kind |-> "difficulty", called |-> FALSE, newDifficulty |-> 0,
                params |-> PowParams(0, 0, 0, 0, 1, 0, 0, 1, NoRequire)]

\* One call of CalculateNewDifficultyCore by a test case.
CallRetarget(p) ==
    /\ probe.kind = "difficulty"
    /\ ~probe.called
    /\ probe' = [probe EXCEPT !.called = TRUE, !.params = p,
                              !.newDifficulty = CalculateNewDifficultyCore(p)]
    /\ UNCHANGED <<node, config>>

RunRequireTest == \E p \in DifficultyTests : CallRetarget(p)
RunRangeTest == \E p \in difficulty_adjustment_range_test : CallRetarget(p)

NextDifficulty == RunRequireTest \/ RunRangeTest

SpecDifficulty == InitDifficulty /\ [][NextDifficulty]_vars

\* A call whose result a BOOST_REQUIRE fixes.
Required == probe.kind = "difficulty" /\ probe.called /\ probe.params.required # NoRequire

\* C20: in every call whose result the tests fix, when
\* delta*100/expected_nodes >= adjust_threshold and current_nodes >=
\* expected_nodes and the epoch is no calibration boundary, the result is
\* current_difficulty + 1; when the condition does not hold, the result is at
\* most current_difficulty, plus one at a calibration boundary.
IncrementRuleMatchesTests ==
    Required =>
        LET p == probe.params
            cond == SubmissionPercent(p) >= p.adjustThreshold
                    /\ p.currentNodes >= p.expectedNodes
        IN  /\ (cond /\ ~IsCalibrationBoundary(p)) => p.required = p.currentDifficulty + 1
            /\ ~cond => p.required <= p.currentDifficulty
                                      + (IF IsCalibrationBoundary(p) THEN 1 ELSE 0)

\* (expected_nodes - pow_submissions) * 100 / expected_nodes: by how many
\* percent the submissions fall short of the expected number.
ShortfallPercent(p) ==
    TruncDiv((p.expectedNodes - p.powSubmissions) * 100, p.expectedNodes)

\* C21: in every call whose result the tests fix, away from a calibration
\* boundary, the result is current_difficulty - 1 only when the submissions
\* fall short of expected_nodes by adjust_threshold percent and current_nodes
\* < expected_nodes; the result is never below min_difficulty; and with
\* current_nodes > expected_nodes and fewer submissions than nodes the result
\* is current_difficulty.
DecrementRuleMatchesTests ==
    Required =>
        LET p == probe.params IN
        /\ p.required >= p.minDifficulty
        /\ ~IsCalibrationBoundary(p) =>
             /\ p.required < p.currentDifficulty =>
                  /\ p.required = p.currentDifficulty - 1
                  /\ ShortfallPercent(p) >= p.adjustThreshold
                  /\ p.currentNodes < p.expectedNodes
             /\ (p.currentNodes > p.expectedNodes /\ p.powSubmissions < p.currentNodes) =>
                  p.required = p.currentDifficulty

\* ------------------------------------- the retarget rules on a grid of inputs

MaxYears == 2

\* Difficulties at the bottom and at the top of the uint8_t range, network
\* sizes around the expected size, submissions from none to twice the
\* expected number, the two thresholds and the year of the small network.
GridMinDifficulties == {3, 5}
GridDifficulties(min) == {min, min + 1, 254, 255}
GridExpectedNodes == {10, 100}
GridNodes(expected) == {expected - 1, expected, expected + 1}
GridSubmissions(expected) ==
    {0, expected \div 2, expected - 1, expected, expected + 1,
     expected + expected \div 10, 2 * expected}
GridThresholds == {9, 99}
GridBlocksPerYear == 10000

RetargetGrid ==
    UNION { UNION { { PowParams(cur, min, nodes, subs, expected, thr, 0, GridBlocksPerYear,
                                NoRequire) :
                        cur \in GridDifficulties(min), nodes \in GridNodes(expected),
                        subs \in GridSubmissions(expected), thr \in GridThresholds } :
                    min \in GridMinDifficulties } :
            expected \in GridExpectedNodes }

InitRetarget ==
    /\ InitNode
    /\ \E p \in RetargetGrid :
         probe = [kind |-> "retarget", called |-> FALSE, params |-> p,
                  atBoundary |-> 0, offBoundary |-> 0, offset |-> 0]

\* CalculateNewDifficultyCore is called twice on the same arguments but for
\* the epoch: at the calibration boundary of a year, and offset epochs later.
RetargetAcrossBoundary(year, offset) ==
    /\ probe.kind = "retarget"
    /\ ~probe.called
    /\ LET boundary == year * probe.params.numBlocksPerYear
           at == [probe.params EXCEPT !.currentEpoch = boundary]
           off == [probe.params EXCEPT !.currentEpoch = boundary + offset]
       IN  probe' = [probe EXCEPT !.called = TRUE,
                                  !.params = at,
                                  !.offset = offset,
                                  !.atBoundary = CalculateNewDifficultyCore(at),
                                  !.offBoundary = CalculateNewDifficultyCore(off)]
    /\ UNCHANGED <<node, config>>

NextRetarget ==
    \E year \in 0..MaxYears : \E offset \in {1, GridBlocksPerYear - 1} :
        RetargetAcrossBoundary(year, offset)

SpecRetarget == InitRetarget /\ [][NextRetarget]_vars

Retargeted == probe.kind = "retarget" /\ probe.called

IncrementAtBoundary(p) == SubmissionStep(p) + 1

GoldenVectors == {difficulty_adjustment_small_network[i] : i \in 1..3}

FailedPersistKeepsLink ==
    [][\A t \in Threads :
         (pc[t] = "persist" /\ pc'[t] = "idle") =>
             /\ call'[t].result = "false"
             /\ call'[t].gate = "persist"
             /\ call'[t].effects = <<"link">>
             /\ UNCHANGED <<blocklinkchain, vcBlockStore, DSCommittee, sent>>
             /\ blocklinkchain'[Len(blocklinkchain')].hash = Blk(t).blockHash
             /\ blocklinkchain'[Len(blocklinkchain')].blockType = "VC"
             /\ call'[t].concurrent = {} =>
                  /\ ~GetVCBlock(vcBlockStore', Blk(t).blockHash)
                  /\ DSCommittee' = call'[t].committeeIn]_vars

\* A call for a block that lists a faulty leader failed at the persistence
\* write: the link is in the chain, the block is not in the store, the
\* committee is the initial one and nothing was sent.
LinkWithoutBlockWitness ==
    \E t \in Threads :
        /\ call[t].result = "false"
        /\ call[t].gate = "persist"
        /\ call[t].concurrent = {}
        /\ Blk(t).header.faulty # <<>>
        /\ Linked(blocklinkchain, Blk(t).blockHash)
        /\ ~GetVCBlock(vcBlockStore, Blk(t).blockHash)
        /\ DSCommittee = InitCommittee
        /\ ~GUARD_MODE
        /\ sent = <<>>

\* C26: a frame is sent only by the step that ends a call whose block is
\* linked and stored and whose mutation has run, on a node that is not a
\* lookup node with tree-based broadcast configured; the frame is
\* {NODE, VCBLOCK} followed by the encoding of the decoded block, with no
\* trailing bytes whatever the inbound message carried; and the step that
\* ends such a call returns true and keeps chain, store and committee,
\* whether or not a frame was sent.
FanOutAfterCommitOnly ==
    [][/\ sent' # sent =>
            \E t \in Threads :
                /\ pc[t] = "fanout" /\ pc'[t] = "idle"
                /\ ~LOOKUP_NODE_MODE /\ BROADCAST_TREEBASED_CLUSTER_MODE
                /\ call[t].effects = <<"link", "put", "mutate">>
                /\ Linked(blocklinkchain, Blk(t).blockHash)
                /\ GetVCBlock(vcBlockStore, Blk(t).blockHash)
                /\ sent' = Append(sent, sent'[Len(sent')])
                /\ sent'[Len(sent')].frame =
                       [body |-> message[t].body, trailing |-> 0,
                        type |-> "NODE", instr |-> "VCBLOCK"]
       /\ \A t \in Threads :
            (pc[t] = "fanout" /\ pc'[t] = "idle") =>
                /\ call'[t].result = "true"
                /\ UNCHANGED <<blocklinkchain, vcBlockStore, DSCommittee>>
                /\ sent' = sent => call'[t].effects = <<"link", "put", "mutate">>]_vars

\* Two calls, one for a block and one for the same block followed by a
\* trailing byte, have both sent, and the two frames sent are the same.
SameFrameForTrailingBytesWitness ==
    /\ Len(sent) = 2
    /\ sent[1] = sent[2]
    /\ \E t, u \in Threads :
        /\ call[t].result = "true"
        /\ call[u].result = "true"
        /\ message[t].trailing = 0
        /\ message[u].trailing = 1
        /\ message[t].body = message[u].body

\* A call on a node configured to forward ended with true, its block
\* linked and stored, although nothing was sent.
EncodeFailureKeepsSuccessWitness ==
    \E t \in Threads :
        /\ call[t].result = "true"
        /\ ~LOOKUP_NODE_MODE /\ BROADCAST_TREEBASED_CLUSTER_MODE
        /\ sent = <<>>
        /\ Blk(t).header.faulty # <<>>
        /\ DSCommittee # InitCommittee
        /\ Linked(blocklinkchain, Blk(t).blockHash)
        /\ GetVCBlock(vcBlockStore, Blk(t).blockHash)

\* The pairs a header lists that are not in committee.
Absent(committee, faulty) == {f \in Range(faulty) : f \notin Range(committee)}

\* C27: when the header lists pairs that are not in the committee, the
\* reshuffling still runs to the end of the list: no member is lost, each
\* absent pair is in the result exactly once, the result is longer by the
\* number of absent pairs, and its tail is the listed pairs in header order,
\* those after an absent pair included.
AbsentLeaderIsAppended ==
    Applied =>
        \A views \in {<<probe.preA, probe.viewA>>, <<probe.preB, probe.viewB>>} :
            LET pre == views[1]
                post == views[2]
                listed == InHeaderOrder(probe.faulty)
            IN  Absent(pre, probe.faulty) # {} =>
                    /\ Range(pre) \subseteq Range(post)
                    /\ \A f \in Absent(pre, probe.faulty) : Count(post, f) = 1
                    /\ Len(post) = Len(pre) + Cardinality(Absent(pre, probe.faulty))
                    /\ SubSeq(post, Len(post) - Len(listed) + 1, Len(post)) = listed

\* A header lists a key that is in no committee first and two members after
\* it: the committee grew by one and the two members were moved behind it.
AbsentFirstThenMembersWitness ==
    /\ Applied
    /\ probe.faulty = <<Member("X"), Member("D"), Member("B")>>
    /\ Absent(probe.preB, probe.faulty) = {Member("X")}
    /\ Len(probe.viewB) = Len(probe.preB) + 1
    /\ SubSeq(probe.viewB, Len(probe.viewB) - 2, Len(probe.viewB)) = probe.faulty

\* ===================================== the reshuffling replayed at retrieval

\* A node holds its view of a committee, as kept and as rebuilt from storage.
InitRetrieve ==
    /\ InitNode
    /\ \E keys \in BaseCommittees, self \in {"A", "B"} :
         probe = [selfKey |-> self, faulty |-> <<>>, kind |-> "retrieve", applied |-> 0,
                  pre |-> ViewOf(keys, self),
                  normal |-> ViewOf(keys, self), retrieved |-> ViewOf(keys, self)]

\* The committee rebuilt so far is reshuffled for the next stored VC block by
\* UpdateRetrieveDSCommiteeCompositionAfterVC, and by
\* UpdateDSCommiteeCompositionAfterVC as the running node did.
ReplayVCBlock(faulty) ==
    /\ probe.kind = "retrieve"
    /\ probe.applied < MaxApplies
    /\ probe' = [probe EXCEPT
                   !.faulty = faulty,
                   !.applied = @ + 1,
                   !.pre = probe.retrieved,
                   !.normal = UpdateDSCommiteeCompositionAfterVC(faulty, probe.retrieved,
                                                                 probe.selfKey, GUARD_MODE),
                   !.retrieved = UpdateRetrieveDSCommiteeCompositionAfterVC(
                                     faulty, probe.retrieved, GUARD_MODE)]
    /\ UNCHANGED <<node, config>>

NextRetrieve == \E faulty \in FaultyLists : ReplayVCBlock(faulty)

SpecRetrieve == InitRetrieve /\ [][NextRetrieve]_vars

Replayed == probe.kind = "retrieve" /\ probe.applied > 0 /\ ~GUARD_MODE

Keys(s) == [i \in DOMAIN s |-> s[i][1]]

\* The listed pairs in header order, each key where it is listed last.
RECURSIVE InHeaderOrderByKey(_)
InHeaderOrderByKey(faulty) ==
    IF faulty = <<>> THEN <<>>
    ELSE (IF Head(faulty)[1] \in Range(Keys(Tail(faulty))) THEN <<>> ELSE <<Head(faulty)>>)
         \o InHeaderOrderByKey(Tail(faulty))

\* The retrieval variant by itself: the members whose key the header does
\* not list, in their order, followed by the header's pairs in header order.
RetrievalMovesByKey ==
    Replayed =>
        probe.retrieved =
            SelectSeq(probe.pre, LAMBDA member : member[1] \notin Range(Keys(probe.faulty)))
            \o InHeaderOrderByKey(probe.faulty)

\* C28: the retrieval variant moves by key and carries the header's pairs,
\* and on a committee with distinct keys that holds every listed key the
\* normal variant yields the same order of keys as the retrieval variant.
RetrievalAgreesWithNormal ==
    Replayed =>
        /\ RetrievalMovesByKey
        /\ (/\ NoRepeats(Keys(probe.pre))
            /\ Range(Keys(probe.faulty)) \subseteq Range(Keys(probe.pre)))
               => Keys(probe.normal) = Keys(probe.retrieved)

\* ======================================================= fair scheduling

\* A statement of a running call other than the wait for the mutex.
Step(t) ==
    \/ Decode(t) \/ CheckVersion(t) \/ CheckState(t) \/ CheckEpoch(t) \/ CheckLatest(t)
    \/ CheckHash(t) \/ CheckDuplicate(t) \/ CheckTimestamp(t) \/ CheckCommitteeHash(t)
    \/ CheckCoSig(t) \/ Link(t) \/ Persist(t) \/ Mutate(t) \/ FanOut(t)

\* Every worker thread that can run a statement is scheduled in the end, and
\* a thread that finds the mutex free again and again acquires it in the end.
\* Frames arrive and the epoch advances as the environment pleases.
Fairness == \A t \in Threads : WF_vars(Step(t)) /\ SF_vars(Lock(t))

\* The node as built for a shard: guard mode off, not a lookup node,
\* tree-based broadcast on, so that the mutation and the fan-out both run.
InitFair == Init /\ ~GUARD_MODE /\ ~LOOKUP_NODE_MODE /\ BROADCAST_TREEBASED_CLUSTER_MODE

SpecFair == InitFair /\ [][Next]_vars /\ Fairness

\* C29: under fair scheduling every call that was started returns, and no
\* thread that is not inside a call holds the DS-committee mutex.
EveryCallReturns ==
    /\ \A t \in Threads :
         (pc[t] # "idle") ~> (pc[t] = "idle" /\ call[t].result \in {"true", "false"}
                              /\ mutexDSCommittee # t)
    /\ [](\A t \in Threads : pc[t] = "idle" => mutexDSCommittee # t)

\* Two calls that ran side by side and both took the mutex have returned,
\* one of them from the failed write, and the mutex is free.
BothReturnedAfterContentionWitness ==
    /\ \A t \in Threads :
         /\ pc[t] = "idle"
         /\ call[t].result \in {"true", "false"}
         /\ call[t].concurrent # {}
         /\ call[t].acquired = 1
    /\ \E t \in Threads : call[t].result = "false" /\ call[t].gate = "persist"
    /\ mutexDSCommittee = NoThread

\* C30: no two entries of the block-link chain are VC links with the same
\* block hash.
EachHashLinkedOnce ==
    \A i, j \in DOMAIN blocklinkchain :
        (/\ blocklinkchain[i].blockType = "VC"
         /\ blocklinkchain[j].blockType = "VC"
         /\ blocklinkchain[i].hash = blocklinkchain[j].hash) => i = j

\* A block whose first call failed at the persistence write was submitted
\* again after that call had returned, and is not linked twice.
ResubmissionLinkedOnce ==
    \A t \in Threads :
        (/\ t \in Done
         /\ call[t].concurrent = {}
         /\ call[t].before.result = "false"
         /\ call[t].before.gate = "persist"
         /\ call[t].before.frame = message[t])
            => Cardinality({i \in DOMAIN blocklinkchain :
                              /\ blocklinkchain[i].blockType = "VC"
                              /\ blocklinkchain[i].hash = Blk(t).blockHash}) <= 1

\* C31: in every state of the pipeline the DS committee has the length of
\* the initial committee, holds each (pubkey, peer) pair as often as the
\* initial committee does, and holds no pubkey twice.
CommitteeOnlyPermuted ==
    /\ Len(DSCommittee) = Len(InitCommittee)
    /\ \A member \in Range(DSCommittee) \cup Range(InitCommittee) :
         Count(DSCommittee, member) = Count(InitCommittee, member)
    /\ NoRepeats(Keys(DSCommittee))

\* C32: in every state every hash in the block store has a VC link in the
\* block-link chain; a call that has run the mutation has its block in the
\* store and in the chain; and the committee differs from the initial one
\* only if the store holds a block that lists a faulty leader.
StoredIsLinkedMutatedIsStored ==
    /\ \A hash \in DOMAIN vcBlockStore : Linked(blocklinkchain, hash)
    /\ \A t \in Threads :
         (t \in Calls /\ "mutate" \in Range(call[t].effects)) =>
             /\ GetVCBlock(vcBlockStore, Blk(t).blockHash)
             /\ Linked(blocklinkchain, Blk(t).blockHash)
    /\ DSCommittee # InitCommittee =>
         \E hash \in DOMAIN vcBlockStore :
             GetNodeVCBlock([body |-> vcBlockStore[hash]]).header.faulty # <<>>

\* A block was linked, stored and has moved the committee, after another
\* block was linked whose write failed: the chain holds a hash the store
\* does not, and the store holds none the chain does not.
MutatedBlockStoredWitness ==
    /\ DSCommittee # InitCommittee
    /\ \E t \in Threads :
         /\ t \in Done
         /\ call[t].result = "true"
         /\ call[t].effects = <<"link", "put", "mutate", "send">>
         /\ GetVCBlock(vcBlockStore, Blk(t).blockHash)
         /\ Linked(blocklinkchain, Blk(t).blockHash)
    /\ \E i \in DOMAIN blocklinkchain :
         /\ blocklinkchain[i].blockType = "VC"
         /\ ~GetVCBlock(vcBlockStore, blocklinkchain[i].hash)

====
